---- MODULE Spec2Model ----
(***************************************************************************)
(* EKAT packed scalars (src/src/ekat/ekat_pack.hpp) and the abort facility *)
(* (src/src/ekat/ekat_assert.cpp).                                         *)
(*                                                                         *)
(* A Pack<T,n> is its private array d[n], a function from lanes 0..n-1 to  *)
(* scalars; a Mask<n> is a function from lanes to BOOLEAN.  The scalar     *)
(* type T is a 16-bit unsigned integer: every arithmetic result is taken   *)
(* modulo 2^16, as C++ does for that type.                                 *)
(*                                                                         *)
(* Loops marked vector_simd that carry an accumulator (any, all, max,      *)
(* reduce_sum<false>) visit the lanes in an order the compiler chooses:    *)
(* the order is an input of the action.  Loops marked vector_disabled and  *)
(* unmarked loops visit lanes 0..n-1 in that order.                        *)
(***************************************************************************)
EXTENDS Integers, FiniteSets, Sequences, TLC

\* ---------------------------------------------------------------- bounds
MaxPairN == 2
MaxN == 3
MaxVal == 2
MaxCode == 2
MaxDoubleN == 4

\* ------------------------------------------------------------ scalar type
Modulus == 2^16

\* ScalarTraits<T>::invalid(): the sentinel of the scalar type.
ScalarInvalid == Modulus - 1

\* The scalar values the callers store in lanes and pass as arguments.
Scalars == (0..MaxVal) \cup {ScalarInvalid}

\* enum { n = PackSize }: the instantiations with two packs in play, and
\* those with one.
PairSizes == 1..MaxPairN

PackSizes == 1..MaxN

Lanes(k) == 0..(k - 1)

\* Pack::n / Mask::n of an object.
LaneCount(d) == Cardinality(DOMAIN d)

MaskValues(k) == [Lanes(k) -> BOOLEAN]

\* The orders in which a vectorized loop may visit the lanes.
LaneOrders(k) == Permutations(Lanes(k))

\* The order of a loop that is not vectorized: 0, 1, ..., n-1.
LaneOrder(k) == [i \in Lanes(k) |-> i]

\* impl::min / impl::max of ekat_math_utils.hpp.
impl_min(a, b) == IF b < a THEN b ELSE a

impl_max(a, b) == IF a < b THEN b ELSE a

\* ------------------------------------------------------------------ Mask
RECURSIVE any_loop(_, _, _, _)
any_loop(d, order, i, b) ==
  IF i < LaneCount(d)
    THEN any_loop(d, order, i + 1, IF d[order[i]] THEN TRUE ELSE b)
    ELSE b

\* Mask::any
any(d, order) == any_loop(d, order, 0, FALSE)

RECURSIVE all_loop(_, _, _, _)
all_loop(d, order, i, b) ==
  IF i < LaneCount(d)
    THEN all_loop(d, order, i + 1, IF ~d[order[i]] THEN FALSE ELSE b)
    ELSE b

\* Mask::all with the loop started at the second lane visited.
all_from_second(d, order) == all_loop(d, order, 1, TRUE)

\* Mask::all
all(d, order) == all_loop(d, order, 0, TRUE)

\* Mask::none
none(d, order) == ~any(d, order)

\* operator ! that stores m[i] without negating it.
mask_not_copy(d) == [i \in Lanes(LaneCount(d)) |-> d[i]]

\* operator ! (const MaskType& m)
mask_not(d) == [i \in Lanes(LaneCount(d)) |-> ~d[i]]

\* Mask::Mask(const bool& init)
Mask_bool(k, init) == [i \in Lanes(k) |-> init]

\* Mask::set(i, val)
Mask_set(d, i, val) == [d EXCEPT ![i] = val]

\* ------------------------------------------------------------------ Pack
\* Pack::Pack()
Pack_default(k) == [i \in Lanes(k) |-> ScalarInvalid]

\* Pack::Pack(const scalar& v)
Pack_scalar(k, v) == [i \in Lanes(k) |-> v]

\* Pack::Pack(const Mask&, const PackIn&)
Pack_masked(mask, pin) ==
  [i \in Lanes(LaneCount(pin)) |-> IF mask[i] THEN pin[i] ELSE ScalarInvalid]

\* Pack::set written as *this = Pack(mask, p).
Pack_set_as_ctor(d, mask, pin) ==
  [i \in Lanes(LaneCount(d)) |-> IF mask[i] THEN pin[i] ELSE ScalarInvalid]

\* Pack::set(mask, const PackIn&)
Pack_set(d, mask, pin) ==
  [i \in Lanes(LaneCount(d)) |-> IF mask[i] THEN pin[i] ELSE d[i]]

\* Pack::set(mask, const scalar&)
Pack_set_scalar(d, mask, v) ==
  [i \in Lanes(LaneCount(d)) |-> IF mask[i] THEN v ELSE d[i]]

\* scalar& Pack::operator[](i) used as an lvalue
Pack_write(d, i, v) == [d EXCEPT ![i] = v]

\* ---------------------------------------------------------------- shifts
\* shift_right taking the boundary from pm1[0].
shift_right_pack_first(pm1, pk) ==
  LET k  == LaneCount(pk)
      s  == Pack_default(k)
      s0 == [s EXCEPT ![0] = pm1[0]]
  IN  [i \in Lanes(k) |-> IF i >= 1 THEN pk[i - 1] ELSE s0[i]]

\* shift_right(const PackType& pm1, const PackType& p)
shift_right_pack(pm1, pk) ==
  LET k  == LaneCount(pk)
      s  == Pack_default(k)
      s0 == [s EXCEPT ![0] = pm1[k - 1]]
  IN  [i \in Lanes(k) |-> IF i >= 1 THEN pk[i - 1] ELSE s0[i]]

\* shift_right(const scalar& pm1, const PackType& p)
shift_right_scalar(pm1, pk) ==
  LET k  == LaneCount(pk)
      s  == Pack_default(k)
      s0 == [s EXCEPT ![0] = pm1]
  IN  [i \in Lanes(k) |-> IF i >= 1 THEN pk[i - 1] ELSE s0[i]]

\* shift_left(const PackType& pp1, const PackType& p)
shift_left_pack(pp1, pk) ==
  LET k  == LaneCount(pk)
      s  == Pack_default(k)
      s0 == [s EXCEPT ![k - 1] = pp1[0]]
  IN  [i \in Lanes(k) |-> IF i < k - 1 THEN pk[i + 1] ELSE s0[i]]

\* shift_left storing the boundary in lane 0.
shift_left_scalar_low(pp1, pk) ==
  LET k  == LaneCount(pk)
      s  == Pack_default(k)
      s0 == [s EXCEPT ![0] = pp1]
  IN  [i \in Lanes(k) |-> IF i < k - 1 THEN pk[i + 1] ELSE s0[i]]

\* shift_left(const scalar& pp1, const PackType& p)
shift_left_scalar(pp1, pk) ==
  LET k  == LaneCount(pk)
      s  == Pack_default(k)
      s0 == [s EXCEPT ![k - 1] = pp1]
  IN  [i \in Lanes(k) |-> IF i < k - 1 THEN pk[i + 1] ELSE s0[i]]

\* ------------------------------------------------------------ reductions
RECURSIVE min_loop(_, _, _)
min_loop(pk, i, v) ==
  IF i < LaneCount(pk) THEN min_loop(pk, i + 1, impl_min(v, pk[i])) ELSE v

RECURSIVE min_loop_short(_, _, _)
min_loop_short(pk, i, v) ==
  IF i < LaneCount(pk) - 1 THEN min_loop_short(pk, i + 1, impl_min(v, pk[i])) ELSE v

\* min with the loop stopped one lane early.
min_short(pk) == min_loop_short(pk, 0, pk[0])

\* min(const PackType& p)
min(pk) == min_loop(pk, 0, pk[0])

RECURSIVE max_loop(_, _, _, _)
max_loop(pk, order, i, v) ==
  IF i < LaneCount(pk)
    THEN max_loop(pk, order, i + 1, impl_max(v, pk[order[i]]))
    ELSE v

\* max(const PackType& p)
max(pk, order) == max_loop(pk, order, 0, pk[0])

RECURSIVE sum_loop(_, _, _, _)
sum_loop(pk, order, i, sum) ==
  IF i < LaneCount(pk)
    THEN sum_loop(pk, order, i + 1, (sum + pk[order[i]]) % Modulus)
    ELSE sum

\* reduce_sum whose vectorized loop misses the first lane it should visit.
reduce_sum_into_skip(Serialize, pk, sum, order) ==
  IF Serialize
    THEN sum_loop(pk, LaneOrder(LaneCount(pk)), 0, sum)
    ELSE sum_loop(pk, order, 1, sum)

\* reduce_sum<Serialize>(p, sum): the value of sum on return
reduce_sum_into(Serialize, pk, sum, order) ==
  IF Serialize
    THEN sum_loop(pk, LaneOrder(LaneCount(pk)), 0, sum)
    ELSE sum_loop(pk, order, 0, sum)

\* reduce_sum<Serialize>(p)
reduce_sum(Serialize, pk, order) == reduce_sum_into(Serialize, pk, 0, order)

RECURSIVE masked_min_loop(_, _, _, _)
masked_min_loop(mask, pk, i, init) ==
  IF i < LaneCount(pk)
    THEN masked_min_loop(mask, pk, i + 1,
                         IF mask[i] THEN impl_min(init, pk[i]) ELSE init)
    ELSE init

\* min(mask, init, p)
masked_min(mask, init, pk) == masked_min_loop(mask, pk, 0, init)

RECURSIVE masked_max_loop(_, _, _, _, _)
masked_max_loop(mask, pk, order, i, init) ==
  IF i < LaneCount(pk)
    THEN masked_max_loop(mask, pk, order, i + 1,
                         IF mask[order[i]] THEN impl_max(init, pk[order[i]]) ELSE init)
    ELSE init

\* max(mask, init, p) that ignores the mask.
masked_max_unmasked(mask, init, pk, order) == max_loop(pk, order, 0, init)

\* max(mask, init, p)
masked_max(mask, init, pk, order) == masked_max_loop(mask, pk, order, 0, init)

\* ----------------------------------------------------- binary operators
\* ekat_pack_gen_bin_op_all(+) (-) (*) (/)
ArithOps == {"+", "-", "*", "/"}

\* The greatest int: operands of the scalar type are promoted to int.
IntMax == (2^30 - 1) + 2^30

\* a op b has a value in C++: no division by zero, no overflow of the
\* promoted product.
scalar_defined(o, a, b) ==
  /\ o = "/" => b # 0
  /\ o = "*" => (IF a = 0 THEN TRUE ELSE b <= IntMax \div a)

\* a op b on two scalars.
scalar_op(o, a, b) ==
  CASE o = "+" -> (a + b) % Modulus
    [] o = "-" -> (a - b) % Modulus
    [] o = "*" -> (a * b) % Modulus
    [] o = "/" -> a \div b

\* pack op pack with the loop stopped one lane early: the last lane of the
\* default-constructed result is never assigned.
bin_op_pp_short(o, a, b) ==
  LET k == LaneCount(a)
      c == Pack_default(k)
  IN  [i \in Lanes(k) |-> IF i < k - 1 THEN scalar_op(o, a[i], b[i]) ELSE c[i]]

\* operator op (const PackType& a, const PackType& b)
bin_op_pp(o, a, b) ==
  [i \in Lanes(LaneCount(a)) |-> scalar_op(o, a[i], b[i])]

\* operator op (const PackType& a, const ScalarType& b)
bin_op_ps(o, a, b) ==
  [i \in Lanes(LaneCount(a)) |-> scalar_op(o, a[i], b)]

\* operator op (const ScalarType& a, const PackType& b)
bin_op_sp(o, a, b) ==
  [i \in Lanes(LaneCount(b)) |-> scalar_op(o, a, b[i])]

\* ---------------------------------------------------- ScalarTraits<Pack>
\* static_assert (N>0 && ((N & (N-1))==0))
IsPowerOfTwo(k) == \E e \in 0..k : 2^e = k

\* invalid() returning a zero-filled pack.
traits_invalid_zero(k) == Pack_scalar(k, 0)

\* ScalarTraits<Pack<T,N>>::invalid()
traits_invalid(k) == Pack_scalar(k, ScalarInvalid)

\* ================================================================ state
VARIABLES
  n,        \* the lane count PackSize of the instantiation
  p,        \* a Pack<T,n> of the caller: the source operand
  q,        \* a second Pack<T,n> of the caller: the object set() acts on, the boundary pack
  m,        \* a Mask<n> of the caller
  pc,       \* "idle", or "done" while the value of the last call is alive
  op,       \* the call that produced res
  arg,      \* the scalar argument of that call
  res,      \* its value: a Pack, a scalar or a bool
  apc,      \* position of the process in runtime_check / runtime_abort
  entry,    \* the function of the abort facility the host called
  a_cond,   \* its argument cond
  a_msg,    \* its argument message
  a_code,   \* its argument code
  flag,     \* the local flag of runtime_abort
  cerr,     \* what was written to std::cerr
  session,  \* the ekat session
  mpi,      \* whether MPI_Init has been called
  exit,     \* how the process ended
  enable_fpe,  \* whether the build defines EKAT_ENABLE_FPE
  ekat_fpe,    \* whether the build defines EKAT_FPE
  fe_enabled,  \* the floating-point exceptions that trap
  fe_raised,   \* the floating-point exception flags that are set
  fpe_op,      \* the last call of the FPE facility
  fpe_arg,     \* its argument mask
  fpe_res      \* the mask it returned

packvars == <<n, p, q, m, pc, op, arg, res>>

abortvars == <<apc, entry, a_cond, a_msg, a_code, flag, cerr, session, mpi, exit>>

fpevars == <<enable_fpe, ekat_fpe, fe_enabled, fe_raised, fpe_op, fpe_arg, fpe_res>>

vars == <<n, p, q, m, pc, op, arg, res,
          apc, entry, a_cond, a_msg, a_code, flag, cerr, session, mpi, exit,
          enable_fpe, ekat_fpe, fe_enabled, fe_raised, fpe_op, fpe_arg, fpe_res>>

NoPack == <<>>

NoResult == [pack |-> NoPack, val |-> 0, flag |-> FALSE]

PackResult(x) == [pack |-> x, val |-> 0, flag |-> FALSE]

ScalarResult(x) == [pack |-> NoPack, val |-> x, flag |-> FALSE]

BoolResult(x) == [pack |-> NoPack, val |-> 0, flag |-> x]

\* A call that returns a Mask: its lanes are in the pack field.
MaskResult(x) == [pack |-> x, val |-> 0, flag |-> FALSE]

Messages == {"bad input", "nan found"}

Codes == 0..MaxCode

NotExited == <<"running">>

\* The objects as their constructors leave them: Pack() fills the lanes with
\* the sentinel, Mask() leaves d uninitialized.
InitPack(sizes) ==
  /\ n \in sizes
  /\ p = Pack_default(n)
  /\ q = Pack_default(n)
  /\ m \in MaskValues(n)
  /\ pc = "idle"
  /\ op = "none"
  /\ arg = 0
  /\ res = NoResult

InitAbort ==
  /\ apc = "host"
  /\ entry = "none"
  /\ a_cond = TRUE
  /\ a_msg = ""
  /\ a_code = 0
  /\ flag = 0
  /\ cerr = <<>>
  /\ session = "initialized"
  /\ mpi = FALSE
  /\ exit = NotExited

\* A mask of floating-point exceptions is the set of its bits: 0 is {}.
FeDefault == {"FE_DIVBYZERO", "FE_INVALID", "FE_OVERFLOW"}

FE_ALL_EXCEPT == FeDefault \cup {"FE_INEXACT"}

FeMasks == SUBSET FE_ALL_EXCEPT

\* A build without EKAT_ENABLE_FPE in which nothing traps.
InitNoFpe ==
  /\ enable_fpe = FALSE
  /\ ekat_fpe = FALSE
  /\ fe_enabled = {}
  /\ fe_raised = {}
  /\ fpe_op = "none"
  /\ fpe_arg = {}
  /\ fpe_res = {}

Init == InitPack(PairSizes) /\ InitAbort /\ InitNoFpe

InitOne == InitPack(PackSizes) /\ InitAbort /\ InitNoFpe

\* A call returns its value to the caller.
Return(name, a, r) ==
  /\ pc = "idle"
  /\ pc' = "done"
  /\ op' = name
  /\ arg' = a
  /\ res' = r

\* ----------------------------------------------- the caller fills lanes
WriteP ==
  \E i \in Lanes(n), v \in Scalars :
    /\ pc = "idle"
    /\ p' = Pack_write(p, i, v)
    /\ UNCHANGED <<n, q, m, pc, op, arg, res>>
    /\ UNCHANGED <<abortvars, fpevars>>

WriteQ ==
  \E i \in Lanes(n), v \in Scalars :
    /\ pc = "idle"
    /\ q' = Pack_write(q, i, v)
    /\ UNCHANGED <<n, p, m, pc, op, arg, res>>
    /\ UNCHANGED <<abortvars, fpevars>>

MaskSet ==
  \E i \in Lanes(n), val \in BOOLEAN :
    /\ pc = "idle"
    /\ m' = Mask_set(m, i, val)
    /\ UNCHANGED <<n, p, q, pc, op, arg, res>>
    /\ UNCHANGED <<abortvars, fpevars>>

\* The value of a call dies at the end of the full expression.
Discard ==
  /\ pc = "done"
  /\ pc' = "idle"
  /\ op' = "none"
  /\ arg' = 0
  /\ res' = NoResult
  /\ UNCHANGED <<n, p, q, m>>
  /\ UNCHANGED <<abortvars, fpevars>>

\* ------------------------------------------------------- constructors
PackDefault ==
  /\ Return("Pack()", 0, PackResult(Pack_default(n)))
  /\ UNCHANGED <<n, p, q, m>>
  /\ UNCHANGED <<abortvars, fpevars>>

PackScalar ==
  \E v \in Scalars :
    /\ Return("Pack(v)", v, PackResult(Pack_scalar(n, v)))
    /\ UNCHANGED <<n, p, q, m>>
    /\ UNCHANGED <<abortvars, fpevars>>

PackMasked ==
  /\ Return("Pack(m,p)", 0, PackResult(Pack_masked(m, p)))
  /\ UNCHANGED <<n, p, q, m>>
  /\ UNCHANGED <<abortvars, fpevars>>

TraitsInvalid ==
  /\ IsPowerOfTwo(n)
  /\ Return("ScalarTraits::invalid()", 0, PackResult(traits_invalid(n)))
  /\ UNCHANGED <<n, p, q, m>>
  /\ UNCHANGED <<abortvars, fpevars>>

\* ---------------------------------------------------------------- set
Set ==
  /\ Return("q.set(m,p)", 0, NoResult)
  /\ q' = Pack_set(q, m, p)
  /\ UNCHANGED <<n, p, m>>
  /\ UNCHANGED <<abortvars, fpevars>>

SetScalar ==
  \E v \in Scalars :
    /\ Return("q.set(m,v)", v, NoResult)
    /\ q' = Pack_set_scalar(q, m, v)
    /\ UNCHANGED <<n, p, m>>
    /\ UNCHANGED <<abortvars, fpevars>>

\* -------------------------------------------------------------- shifts
ShiftRightPack ==
  /\ Return("shift_right(q,p)", 0, PackResult(shift_right_pack(q, p)))
  /\ UNCHANGED <<n, p, q, m>>
  /\ UNCHANGED <<abortvars, fpevars>>

ShiftRightScalar ==
  \E b \in Scalars :
    /\ Return("shift_right(b,p)", b, PackResult(shift_right_scalar(b, p)))
    /\ UNCHANGED <<n, p, q, m>>
    /\ UNCHANGED <<abortvars, fpevars>>

ShiftLeftPack ==
  /\ Return("shift_left(q,p)", 0, PackResult(shift_left_pack(q, p)))
  /\ UNCHANGED <<n, p, q, m>>
  /\ UNCHANGED <<abortvars, fpevars>>

ShiftLeftScalar ==
  \E b \in Scalars :
    /\ Return("shift_left(b,p)", b, PackResult(shift_left_scalar(b, p)))
    /\ UNCHANGED <<n, p, q, m>>
    /\ UNCHANGED <<abortvars, fpevars>>

\* -------------------------------------------------------- mask queries
MaskAny ==
  \E order \in LaneOrders(n) :
    /\ Return("m.any()", 0, BoolResult(any(m, order)))
    /\ UNCHANGED <<n, p, q, m>>
    /\ UNCHANGED <<abortvars, fpevars>>

MaskAll ==
  \E order \in LaneOrders(n) :
    /\ Return("m.all()", 0, BoolResult(all(m, order)))
    /\ UNCHANGED <<n, p, q, m>>
    /\ UNCHANGED <<abortvars, fpevars>>

MaskNone ==
  \E order \in LaneOrders(n) :
    /\ Return("m.none()", 0, BoolResult(none(m, order)))
    /\ UNCHANGED <<n, p, q, m>>
    /\ UNCHANGED <<abortvars, fpevars>>

MaskNot ==
  /\ Return("!m", 0, MaskResult(mask_not(m)))
  /\ UNCHANGED <<n, p, q, m>>
  /\ UNCHANGED <<abortvars, fpevars>>

\* ---------------------------------------------------------- reductions
Min ==
  /\ Return("min(p)", 0, ScalarResult(min(p)))
  /\ UNCHANGED <<n, p, q, m>>
  /\ UNCHANGED <<abortvars, fpevars>>

Max ==
  \E order \in LaneOrders(n) :
    /\ Return("max(p)", 0, ScalarResult(max(p, order)))
    /\ UNCHANGED <<n, p, q, m>>
    /\ UNCHANGED <<abortvars, fpevars>>

ReduceSum ==
  \E Serialize \in BOOLEAN, order \in LaneOrders(n) :
    /\ Return(IF Serialize THEN "reduce_sum<true>(p)" ELSE "reduce_sum<false>(p)",
              0, ScalarResult(reduce_sum(Serialize, p, order)))
    /\ UNCHANGED <<n, p, q, m>>
    /\ UNCHANGED <<abortvars, fpevars>>

ReduceSumInto ==
  \E Serialize \in BOOLEAN, order \in LaneOrders(n), sum \in Scalars :
    /\ Return(IF Serialize THEN "reduce_sum<true>(p,sum)" ELSE "reduce_sum<false>(p,sum)",
              sum, ScalarResult(reduce_sum_into(Serialize, p, sum, order)))
    /\ UNCHANGED <<n, p, q, m>>
    /\ UNCHANGED <<abortvars, fpevars>>

MaskedMin ==
  \E init \in Scalars :
    /\ Return("min(m,init,p)", init, ScalarResult(masked_min(m, init, p)))
    /\ UNCHANGED <<n, p, q, m>>
    /\ UNCHANGED <<abortvars, fpevars>>

MaskedMax ==
  \E init \in Scalars, order \in LaneOrders(n) :
    /\ Return("max(m,init,p)", init, ScalarResult(masked_max(m, init, p, order)))
    /\ UNCHANGED <<n, p, q, m>>
    /\ UNCHANGED <<abortvars, fpevars>>

\* Two packs and a mask in play.
Next ==
  \/ WriteP
  \/ WriteQ
  \/ MaskSet
  \/ Discard
  \/ PackMasked
  \/ Set
  \/ SetScalar
  \/ ShiftRightPack
  \/ ShiftLeftPack

Spec == Init /\ [][Next]_vars

\* One pack and a mask in play.
NextOne ==
  \/ WriteP
  \/ MaskSet
  \/ Discard
  \/ PackDefault
  \/ PackScalar
  \/ TraitsInvalid
  \/ ShiftRightScalar
  \/ ShiftLeftScalar
  \/ MaskAny
  \/ MaskAll
  \/ MaskNone
  \/ MaskNot
  \/ Min
  \/ Max
  \/ ReduceSum
  \/ ReduceSumInto
  \/ MaskedMin
  \/ MaskedMax

SpecOne == InitOne /\ [][NextOne]_vars

\* --------------------------------------------------- binary operators
BinOpPP ==
  \E o \in ArithOps :
    /\ \A i \in Lanes(n) : scalar_defined(o, p[i], q[i])
    /\ Return("p" \o o \o "q", 0, PackResult(bin_op_pp(o, p, q)))
    /\ UNCHANGED <<n, p, q, m>>
    /\ UNCHANGED <<abortvars, fpevars>>

BinOpPS ==
  \E o \in ArithOps, s \in Scalars :
    /\ \A i \in Lanes(n) : scalar_defined(o, p[i], s)
    /\ Return("p" \o o \o "s", s, PackResult(bin_op_ps(o, p, s)))
    /\ UNCHANGED <<n, p, q, m>>
    /\ UNCHANGED <<abortvars, fpevars>>

BinOpSP ==
  \E o \in ArithOps, s \in Scalars :
    /\ \A i \in Lanes(n) : scalar_defined(o, s, p[i])
    /\ Return("s" \o o \o "p", s, PackResult(bin_op_sp(o, s, p)))
    /\ UNCHANGED <<n, p, q, m>>
    /\ UNCHANGED <<abortvars, fpevars>>

InitArith == InitPack(PairSizes) /\ m = Mask_bool(n, FALSE) /\ InitAbort /\ InitNoFpe

\* Two packs and a scalar in play.
NextArith ==
  \/ WriteP
  \/ WriteQ
  \/ Discard
  \/ BinOpPP
  \/ BinOpPS
  \/ BinOpSP

SpecArith == InitArith /\ [][NextArith]_vars

\* ====================================================== abort facility
\* The host calls MPI_Init.
HostMpiInit ==
  /\ apc \in {"host", "returned"}
  /\ ~mpi
  /\ mpi' = TRUE
  /\ UNCHANGED <<apc, entry, a_cond, a_msg, a_code, flag, cerr, session, exit>>
  /\ UNCHANGED <<packvars, fpevars>>

\* The host calls runtime_check(cond, message, code).
CallRuntimeCheck ==
  \E c \in BOOLEAN, msg \in Messages, code \in Codes :
    /\ apc \in {"host", "returned"}
    /\ apc' = "check"
    /\ entry' = "runtime_check"
    /\ a_cond' = c
    /\ a_msg' = msg
    /\ a_code' = code
    /\ UNCHANGED <<flag, cerr, session, mpi, exit>>
    /\ UNCHANGED <<packvars, fpevars>>

\* The host calls runtime_abort(message, code).
CallRuntimeAbort ==
  \E msg \in Messages, code \in Codes :
    /\ apc \in {"host", "returned"}
    /\ apc' = "print"
    /\ entry' = "runtime_abort"
    /\ a_cond' = FALSE
    /\ a_msg' = msg
    /\ a_code' = code
    /\ UNCHANGED <<flag, cerr, session, mpi, exit>>
    /\ UNCHANGED <<packvars, fpevars>>

\* runtime_check with the test inverted.
runtime_check_inverted ==
  /\ apc = "check"
  /\ apc' = IF a_cond THEN "print" ELSE "returned"
  /\ UNCHANGED <<entry, a_cond, a_msg, a_code, flag, cerr, session, mpi, exit>>
  /\ UNCHANGED <<packvars, fpevars>>

\* runtime_check: if (!cond) runtime_abort(message,code);
runtime_check ==
  /\ apc = "check"
  /\ apc' = IF ~a_cond THEN "print" ELSE "returned"
  /\ UNCHANGED <<entry, a_cond, a_msg, a_code, flag, cerr, session, mpi, exit>>
  /\ UNCHANGED <<packvars, fpevars>>

\* runtime_abort: std::cerr << message << std::endl << "Exiting..." << std::endl;
runtime_abort_print ==
  /\ apc = "print"
  /\ cerr' = cerr \o <<a_msg, "Exiting...">>
  /\ apc' = "finalize"
  /\ UNCHANGED <<entry, a_cond, a_msg, a_code, flag, session, mpi, exit>>
  /\ UNCHANGED <<packvars, fpevars>>

\* runtime_abort: finalize_ekat_session();
runtime_abort_finalize ==
  /\ apc = "finalize"
  /\ session' = "finalized"
  /\ apc' = "mpi_initialized"
  /\ UNCHANGED <<entry, a_cond, a_msg, a_code, flag, cerr, mpi, exit>>
  /\ UNCHANGED <<packvars, fpevars>>

\* runtime_abort: int flag; MPI_Initialized(&flag);
runtime_abort_mpi_initialized ==
  /\ apc = "mpi_initialized"
  /\ flag' = IF mpi THEN 1 ELSE 0
  /\ apc' = "terminate"
  /\ UNCHANGED <<entry, a_cond, a_msg, a_code, cerr, session, mpi, exit>>
  /\ UNCHANGED <<packvars, fpevars>>

\* runtime_abort that always ends in std::abort.
runtime_abort_terminate_plain ==
  /\ apc = "terminate"
  /\ exit' = <<"std::abort">>
  /\ apc' = "exited"
  /\ UNCHANGED <<entry, a_cond, a_msg, a_code, flag, cerr, session, mpi>>
  /\ UNCHANGED <<packvars, fpevars>>

\* runtime_abort: if (flag!=0) MPI_Abort(MPI_COMM_WORLD, code); else std::abort();
runtime_abort_terminate ==
  /\ apc = "terminate"
  /\ exit' = IF flag # 0 THEN <<"MPI_Abort", "MPI_COMM_WORLD", a_code>> ELSE <<"std::abort">>
  /\ apc' = "exited"
  /\ UNCHANGED <<entry, a_cond, a_msg, a_code, flag, cerr, session, mpi>>
  /\ UNCHANGED <<packvars, fpevars>>

\* The steps the process takes on its own once a call is made.
AbortBody ==
  \/ runtime_check
  \/ runtime_abort_print
  \/ runtime_abort_finalize
  \/ runtime_abort_mpi_initialized
  \/ runtime_abort_terminate

NextAbort ==
  \/ HostMpiInit
  \/ CallRuntimeCheck
  \/ CallRuntimeAbort
  \/ runtime_check
  \/ runtime_abort_print
  \/ runtime_abort_finalize
  \/ runtime_abort_mpi_initialized
  \/ runtime_abort_terminate

InitHost == InitPack({1}) /\ m = [i \in Lanes(1) |-> FALSE] /\ InitAbort /\ InitNoFpe

SpecAbort == InitHost /\ [][NextAbort]_vars

\* The body of a called function runs to its end: nothing in it waits.
SpecAbortFair == SpecAbort /\ WF_vars(AbortBody)

\* ======================================================= packs of double
\* The doubles in play are integers: a double is its sign and its magnitude
\* hi * Base + lo, and an addition is the exact sum rounded to binary64
\* (53 significant bits, round to nearest, ties to even).
Base == 10^8

Mag(h, l) == [hi |-> h, lo |-> l]

MagLess(a, b) == a.hi < b.hi \/ (a.hi = b.hi /\ a.lo < b.lo)

MagAdd(a, b) ==
  Mag(a.hi + b.hi + (a.lo + b.lo) \div Base, (a.lo + b.lo) % Base)

\* a - b for a >= b
MagSub(a, b) ==
  IF a.lo >= b.lo
    THEN Mag(a.hi - b.hi, a.lo - b.lo)
    ELSE Mag(a.hi - b.hi - 1, a.lo + Base - b.lo)

MagTwice(a) == MagAdd(a, a)

RECURSIVE MagPow2(_)
MagPow2(e) == IF e = 0 THEN Mag(0, 1) ELSE MagTwice(MagPow2(e - 1))

\* The magnitudes below 2^53 are all doubles.
MantissaLimit == MagPow2(53)

\* The spacing of the doubles around the magnitude x.
RECURSIVE UlpFrom(_, _, _)
UlpFrom(x, u, limit) ==
  IF MagLess(x, limit) THEN u ELSE UlpFrom(x, 2 * u, MagTwice(limit))

Ulp(x) == UlpFrom(x, 1, MantissaLimit)

\* The double nearest to the magnitude x, ties to the even significand.
\* The spacing divides Base, so x mod u is lo mod u.
RoundMag(x) ==
  LET u    == Ulp(x)
      r    == x.lo % u
      down == MagSub(x, Mag(0, r))
      up   == MagAdd(down, Mag(0, u))
      even == (down.lo % (2 * u)) = 0
  IN  IF r = 0 THEN x
      ELSE IF 2 * r < u THEN down
      ELSE IF 2 * r > u THEN up
      ELSE IF even THEN down ELSE up

Double(negative, x) == [neg |-> negative /\ x # Mag(0, 0), mag |-> x]

\* a + b on doubles.
double_add(a, b) ==
  IF a.neg = b.neg
    THEN Double(a.neg, RoundMag(MagAdd(a.mag, b.mag)))
    ELSE IF MagLess(a.mag, b.mag)
      THEN Double(b.neg, RoundMag(MagSub(b.mag, a.mag)))
      ELSE Double(a.neg, RoundMag(MagSub(a.mag, b.mag)))

D_0 == Double(FALSE, Mag(0, 0))

D_1 == Double(FALSE, Mag(0, 1))

D_2 == Double(FALSE, Mag(0, 2))

D_1e16 == Double(FALSE, Mag(Base, 0))

D_minus_1e16 == Double(TRUE, Mag(Base, 0))

\* The lane values of the packs of double.
DoubleValues == {D_1e16, D_1, D_minus_1e16}

DoubleSizes == 1..MaxDoubleN

RECURSIVE sum_loop_double(_, _, _, _)
sum_loop_double(pk, order, i, sum) ==
  IF i < LaneCount(pk)
    THEN sum_loop_double(pk, order, i + 1, double_add(sum, pk[order[i]]))
    ELSE sum

\* The order of a loop that counts down: n-1, ..., 1, 0.
LaneOrderDown(k) == [i \in Lanes(k) |-> k - 1 - i]

\* reduce_sum on doubles whose serial loop counts down.
reduce_sum_double_into_down(Serialize, pk, sum, order) ==
  IF Serialize
    THEN sum_loop_double(pk, LaneOrderDown(LaneCount(pk)), 0, sum)
    ELSE sum_loop_double(pk, order, 0, sum)

\* reduce_sum<Serialize>(p, sum) on a Pack<double,n>
reduce_sum_double_into(Serialize, pk, sum, order) ==
  IF Serialize
    THEN sum_loop_double(pk, LaneOrder(LaneCount(pk)), 0, sum)
    ELSE sum_loop_double(pk, order, 0, sum)

\* reduce_sum<Serialize>(p) on a Pack<double,n>
reduce_sum_double(Serialize, pk, order) ==
  reduce_sum_double_into(Serialize, pk, D_0, order)

\* A Pack<double,n> the caller has filled.
InitDouble ==
  /\ n \in DoubleSizes
  /\ p \in [Lanes(n) -> DoubleValues]
  /\ q = Pack_scalar(n, D_0)
  /\ m = Mask_bool(n, FALSE)
  /\ pc = "idle"
  /\ op = "none"
  /\ arg = 0
  /\ res = NoResult
  /\ InitAbort
  /\ InitNoFpe

ReduceSumDouble ==
  \E Serialize \in BOOLEAN, order \in LaneOrders(n) :
    /\ Return(IF Serialize THEN "reduce_sum<true>(p)" ELSE "reduce_sum<false>(p)",
              0, ScalarResult(reduce_sum_double(Serialize, p, order)))
    /\ UNCHANGED <<n, p, q, m>>
    /\ UNCHANGED <<abortvars, fpevars>>

NextDouble ==
  \/ ReduceSumDouble
  \/ Discard

SpecDouble == InitDouble /\ [][NextDouble]_vars

\* ======================================================== FPE facility
\* Either build, with the traps and flags other code has left.
InitFpe ==
  /\ InitPack({1}) /\ m = Mask_bool(n, FALSE)
  /\ InitAbort
  /\ enable_fpe \in BOOLEAN
  /\ ekat_fpe \in BOOLEAN
  /\ fe_enabled \in FeMasks
  /\ fe_raised \in FeMasks
  /\ fpe_op = "none"
  /\ fpe_arg = {}
  /\ fpe_res = {}

\* feclearexcept(mask)
feclearexcept(raised, mask) == raised \ mask

\* feenableexcept(mask)
feenableexcept(enabled, mask) == enabled \cup mask

\* fedisableexcept(mask)
fedisableexcept(enabled, mask) == enabled \ mask

\* int get_default_fpes ()
get_default_fpes ==
  /\ fpe_op' = "get_default_fpes"
  /\ fpe_arg' = {}
  /\ fpe_res' = IF enable_fpe
                  THEN (IF ekat_fpe THEN FeDefault ELSE {})
                  ELSE {}
  /\ UNCHANGED <<enable_fpe, ekat_fpe, fe_enabled, fe_raised>>
  /\ UNCHANGED <<packvars, abortvars>>

\* enable_fpes compiled without the #ifdef.
enable_fpes_unguarded ==
  \E mask \in FeMasks :
    /\ fpe_op' = "enable_fpes"
    /\ fpe_arg' = mask
    /\ fpe_res' = {}
    /\ fe_raised' = feclearexcept(fe_raised, mask)
    /\ fe_enabled' = feenableexcept(fe_enabled, mask)
    /\ UNCHANGED <<enable_fpe, ekat_fpe>>
    /\ UNCHANGED <<packvars, abortvars>>

\* void enable_fpes (const int mask)
enable_fpes ==
  \E mask \in FeMasks :
    /\ fpe_op' = "enable_fpes"
    /\ fpe_arg' = mask
    /\ fpe_res' = {}
    /\ fe_raised' = IF enable_fpe THEN feclearexcept(fe_raised, mask) ELSE fe_raised
    /\ fe_enabled' = IF enable_fpe THEN feenableexcept(fe_enabled, mask) ELSE fe_enabled
    /\ UNCHANGED <<enable_fpe, ekat_fpe>>
    /\ UNCHANGED <<packvars, abortvars>>

\* void disable_fpes (const int mask)
disable_fpes ==
  \E mask \in FeMasks :
    /\ fpe_op' = "disable_fpes"
    /\ fpe_arg' = mask
    /\ fpe_res' = {}
    /\ fe_enabled' = IF enable_fpe THEN fedisableexcept(fe_enabled, mask) ELSE fe_enabled
    /\ UNCHANGED <<enable_fpe, ekat_fpe, fe_raised>>
    /\ UNCHANGED <<packvars, abortvars>>

\* int get_enabled_fpes ()
get_enabled_fpes ==
  /\ fpe_op' = "get_enabled_fpes"
  /\ fpe_arg' = {}
  /\ fpe_res' = IF enable_fpe THEN fe_enabled ELSE {}
  /\ UNCHANGED <<enable_fpe, ekat_fpe, fe_enabled, fe_raised>>
  /\ UNCHANGED <<packvars, abortvars>>

\* void disable_all_fpes ()
disable_all_fpes ==
  /\ fpe_op' = "disable_all_fpes"
  /\ fpe_arg' = {}
  /\ fpe_res' = {}
  /\ fe_enabled' = IF enable_fpe
                     THEN fedisableexcept(fe_enabled, FE_ALL_EXCEPT)
                     ELSE fe_enabled
  /\ UNCHANGED <<enable_fpe, ekat_fpe, fe_raised>>
  /\ UNCHANGED <<packvars, abortvars>>

NextFpe ==
  \/ get_default_fpes
  \/ enable_fpes
  \/ disable_fpes
  \/ get_enabled_fpes
  \/ disable_all_fpes

SpecFpe == InitFpe /\ [][NextFpe]_vars

\* =============================================================== claims
\* The step in which the call `name` is made and returns.
Called(name) == pc = "idle" /\ op' = name

IsPack(x) == DOMAIN x = Lanes(n)

\* C1: Pack(m,p) has lane i = p[i] where m[i] and the invalid sentinel where
\* not; q.set(m,p) leaves q with lane i = p[i] where m[i] and its prior q[i]
\* where not; neither changes m or p.
C1_MaskedCtorAndSet ==
  [][ /\ Called("Pack(m,p)") =>
           /\ IsPack(res'.pack)
           /\ \A i \in Lanes(n) :
                res'.pack[i] = IF m[i] THEN p[i] ELSE ScalarInvalid
           /\ m' = m /\ p' = p /\ q' = q
      /\ Called("q.set(m,p)") =>
           /\ IsPack(q')
           /\ \A i \in Lanes(n) : q'[i] = IF m[i] THEN p[i] ELSE q[i]
           /\ m' = m /\ p' = p
    ]_vars

\* q.set(m,p) has run with a selected and an unselected lane, and the
\* unselected lane holds a value that is neither p's nor the sentinel.
C1_Witness ==
  /\ op = "q.set(m,p)"
  /\ \E i, j \in Lanes(n) :
       /\ m[i] /\ q[i] = p[i]
       /\ ~m[j] /\ q[j] # p[j] /\ q[j] # ScalarInvalid

\* C2 as stated: shift_right(bp,p) has lane 0 = bp[0] and lane i = p[i-1]
\* for i in 1..N-1.
C2_AsStated ==
  op = "shift_right(q,p)" =>
    /\ res.pack[0] = q[0]
    /\ \A i \in 1..(n - 1) : res.pack[i] = p[i - 1]

\* C2: shift_right(bp,p) has lane 0 = bp[N-1], the last lane of the boundary
\* pack, and lane i = p[i-1] for i in 1..N-1.
C2_ShiftRightPack ==
  op = "shift_right(q,p)" =>
    /\ IsPack(res.pack)
    /\ res.pack[0] = q[n - 1]
    /\ \A i \in 1..(n - 1) : res.pack[i] = p[i - 1]

\* shift_right(q,p) has returned for a boundary pack whose first and last
\* lanes differ.
C2_Witness ==
  /\ op = "shift_right(q,p)"
  /\ n >= 2
  /\ q[0] # q[n - 1]
  /\ res.pack[0] = q[n - 1]
  /\ res.pack[1] = p[0]
  /\ p[0] # q[n - 1]

NoInvalidLane(x) == \A i \in DOMAIN x : x[i] # ScalarInvalid

\* C3: with a scalar boundary b, shift_right(b,p) is b followed by
\* p[0..N-2] and shift_left(b,p) is p[1..N-1] followed by b; every lane of
\* the result is assigned, so no lane keeps the sentinel of the
\* default-constructed result when b and p hold none; p is unchanged.
C3_ShiftScalar ==
  [][ /\ Called("shift_right(b,p)") =>
           /\ IsPack(res'.pack)
           /\ res'.pack[0] = arg'
           /\ \A i \in 1..(n - 1) : res'.pack[i] = p[i - 1]
           /\ (arg' # ScalarInvalid /\ NoInvalidLane(p)) => NoInvalidLane(res'.pack)
           /\ p' = p
      /\ Called("shift_left(b,p)") =>
           /\ IsPack(res'.pack)
           /\ res'.pack[n - 1] = arg'
           /\ \A i \in 0..(n - 2) : res'.pack[i] = p[i + 1]
           /\ (arg' # ScalarInvalid /\ NoInvalidLane(p)) => NoInvalidLane(res'.pack)
           /\ p' = p
    ]_vars

\* shift_left(b,p) has returned on three lanes that differ from each other
\* and from b.
C3_Witness ==
  /\ op = "shift_left(b,p)"
  /\ n >= 3
  /\ NoInvalidLane(p) /\ arg # ScalarInvalid
  /\ p[1] # p[2] /\ p[0] # p[1] /\ arg # p[2] /\ arg # p[0]
  /\ res.pack[0] = p[1] /\ res.pack[1] = p[2] /\ res.pack[n - 1] = arg

\* C4: m.any() is true iff some lane is true, m.all() iff every lane is,
\* m.none() is the negation of m.any(), so m.all() implies m.any(); the
\* queries leave m unchanged.
C4_MaskQueries ==
  [][ /\ Called("m.any()") =>
           /\ res'.flag = (\E i \in Lanes(n) : m[i])
           /\ m' = m
      /\ Called("m.all()") =>
           /\ res'.flag = (\A i \in Lanes(n) : m[i])
           /\ res'.flag => \A o \in LaneOrders(n) : any(m, o)
           /\ m' = m
      /\ Called("m.none()") =>
           /\ res'.flag = (\A i \in Lanes(n) : ~m[i])
           /\ \A o \in LaneOrders(n) : res'.flag = ~any(m, o)
           /\ m' = m
    ]_vars

\* m.all() has returned false on a mixed mask, on which any() is true.
C4_Witness ==
  /\ op = "m.all()"
  /\ ~res.flag
  /\ \E i, j \in Lanes(n) : m[i] /\ ~m[j]
  /\ \A o \in LaneOrders(n) : any(m, o)

RECURSIVE SetSum(_, _)
SetSum(x, S) ==
  IF S = {} THEN 0
  ELSE LET i == CHOOSE j \in S : TRUE IN x[i] + SetSum(x, S \ {i})

\* p[0]+p[1]+...+p[N-1] in the scalar type.
LaneTotal(x) == SetSum(x, DOMAIN x) % Modulus

\* C5: on integer scalars reduce_sum<true>(p) and reduce_sum<false>(p) both
\* return p[0]+...+p[N-1], and reduce_sum<S>(p,sum) leaves sum at its prior
\* value plus that total, under either policy.
C5_ReduceSum ==
  [][ /\ Called("reduce_sum<true>(p)") => res'.val = LaneTotal(p)
      /\ Called("reduce_sum<false>(p)") => res'.val = LaneTotal(p)
      /\ Called("reduce_sum<true>(p,sum)") =>
           res'.val = (arg' + LaneTotal(p)) % Modulus
      /\ Called("reduce_sum<false>(p,sum)") =>
           res'.val = (arg' + LaneTotal(p)) % Modulus
    ]_vars

\* The vectorized in-place sum has returned on a pack of three different
\* lanes and a non-zero prior sum.
C5_Witness ==
  /\ op = "reduce_sum<false>(p,sum)"
  /\ n >= 3
  /\ p[0] # p[1] /\ p[1] # p[2] /\ p[0] # p[2]
  /\ arg > 0
  /\ res.val = (arg + p[0] + p[1] + p[2]) % Modulus

Selected(mask, init, x) == {init} \cup {x[i] : i \in {j \in DOMAIN x : mask[j]}}

Greatest(S) == CHOOSE v \in S : \A w \in S : w <= v

Least(S) == CHOOSE v \in S : \A w \in S : v <= w

ExampleLanes == Lanes(Len(<<3, 1, 4, 1>>))

ExamplePack == [i \in ExampleLanes |-> <<3, 1, 4, 1>>[i + 1]]

ExampleMask == [i \in ExampleLanes |-> <<TRUE, FALSE, TRUE, FALSE>>[i + 1]]

\* The values max(m,0,p) can return on the example of the claim.
ExampleMaskedMax ==
  {masked_max(ExampleMask, 0, ExamplePack, o) : o \in Permutations(ExampleLanes)}

\* C6: max(m,init,p) is the greatest, and min(m,init,p) the least, of init
\* and the lanes p[i] with m[i] true; lanes with m[i] false have no
\* influence, so an all-false mask returns init; max over [3,1,4,1] with
\* mask [T,F,T,F] and init 0 is 4.
C6_MaskedMinMax ==
  /\ op = "max(m,init,p)" =>
       /\ res.val = Greatest(Selected(m, arg, p))
       /\ (\A i \in Lanes(n) : ~m[i]) => res.val = arg
  /\ op = "min(m,init,p)" =>
       /\ res.val = Least(Selected(m, arg, p))
       /\ (\A i \in Lanes(n) : ~m[i]) => res.val = arg
  /\ ExampleMaskedMax = {4}

\* max(m,init,p) has returned a selected lane above init while an
\* unselected lane holds a greater value still.
C6_Witness ==
  /\ op = "max(m,init,p)"
  /\ \E i, j \in Lanes(n) :
       /\ m[i] /\ p[i] > arg /\ res.val = p[i]
       /\ ~m[j] /\ p[j] > p[i]

\* C7: min(p) is the least and max(p) the greatest value over all N lanes;
\* the result is one of the lane values and p is unchanged.
C7_MinMax ==
  [][ /\ Called("min(p)") =>
           /\ \E i \in Lanes(n) : res'.val = p[i]
           /\ \A i \in Lanes(n) : res'.val <= p[i]
           /\ p' = p
      /\ Called("max(p)") =>
           /\ \E i \in Lanes(n) : res'.val = p[i]
           /\ \A i \in Lanes(n) : res'.val >= p[i]
           /\ p' = p
    ]_vars

\* min(p) has returned the value of the last lane, below every other lane.
C7_Witness ==
  /\ op = "min(p)"
  /\ n >= 3
  /\ res.val = p[n - 1]
  /\ \A i \in 0..(n - 2) : p[i] > p[n - 1]

Printed == cerr = <<a_msg, "Exiting...">>

InAbort == apc \in {"print", "finalize", "mpi_initialized", "terminate", "exited"}

\* The effects of runtime_abort so far, by position.
AbortOrder ==
  /\ apc = "print" => cerr = <<>> /\ session = "initialized" /\ exit = NotExited
  /\ apc = "finalize" => Printed /\ session = "initialized" /\ exit = NotExited
  /\ apc \in {"mpi_initialized", "terminate"} =>
       Printed /\ session = "finalized" /\ exit = NotExited
  /\ apc = "exited" =>
       /\ Printed
       /\ session = "finalized"
       /\ exit = IF mpi THEN <<"MPI_Abort", "MPI_COMM_WORLD", a_code>>
                        ELSE <<"std::abort">>
  /\ exit # NotExited => apc = "exited"

\* C8: runtime_abort(message, code) prints the message, then finalizes the
\* ekat session, then terminates: by MPI_Abort on the world communicator
\* with the code when MPI is initialized, by std::abort when not; it always
\* gets there and never returns to its caller.
C8_RuntimeAbort ==
  /\ [](entry = "runtime_abort" => InAbort /\ AbortOrder)
  /\ (entry = "runtime_abort") ~> (apc = "exited")

\* runtime_abort has ended the process through MPI_Abort.
C8_Witness ==
  /\ entry = "runtime_abort"
  /\ apc = "exited"
  /\ mpi
  /\ exit = <<"MPI_Abort", "MPI_COMM_WORLD", a_code>>
  /\ a_code > 0

\* C9: runtime_check(cond, message, code) with cond true prints nothing,
\* finalizes nothing and returns; with cond false it runs runtime_abort with
\* the same message and code; the process ends in it iff cond is false.
C9_RuntimeCheck ==
  /\ [][ /\ (apc = "check" /\ a_cond) =>
              /\ apc' = "returned"
              /\ UNCHANGED <<cerr, session, mpi, exit>>
         /\ (apc = "check" /\ ~a_cond) =>
              /\ apc' = "print"
              /\ UNCHANGED <<a_msg, a_code, cerr, session, mpi, exit>>
       ]_vars
  /\ [](entry = "runtime_check" =>
          /\ apc = "returned" => a_cond /\ exit = NotExited
          /\ InAbort => ~a_cond /\ AbortOrder)
  /\ (apc = "check" /\ ~a_cond) ~> (apc = "exited")
  /\ (apc = "check" /\ a_cond) ~> (apc = "returned")

\* runtime_check has ended the process on a false condition, MPI not being
\* initialized.
C9_Witness ==
  /\ entry = "runtime_check"
  /\ ~a_cond
  /\ apc = "exited"
  /\ exit = <<"std::abort">>
  /\ Printed

\* C10: a default-constructed Pack<T,N> and ScalarTraits<Pack<T,N>>::invalid()
\* are lane-wise equal: each of the N lanes of each is ScalarTraits<T>::invalid().
C10_DefaultIsInvalid ==
  /\ op = "Pack()" =>
       /\ IsPack(res.pack)
       /\ \A i \in Lanes(n) : res.pack[i] = ScalarInvalid
       /\ IsPowerOfTwo(n) => \A i \in Lanes(n) : res.pack[i] = traits_invalid(n)[i]
  /\ op = "ScalarTraits::invalid()" =>
       /\ IsPack(res.pack)
       /\ \A i \in Lanes(n) : res.pack[i] = ScalarInvalid
       /\ \A i \in Lanes(n) : res.pack[i] = Pack_default(n)[i]

\* ScalarTraits<Pack<T,2>>::invalid() has returned.
C10_Witness ==
  /\ op = "ScalarTraits::invalid()"
  /\ n >= 2
  /\ \A i \in Lanes(n) : res.pack[i] = Pack_default(n)[i]

\* C11: for op in {+,-,*,/} with the result defined, (a op b)[i] = a[i] op
\* b[i], (a op s)[i] = a[i] op s and (s op a)[i] = s op a[i] on every lane;
\* the result has N lanes, each assigned, and the operands are unchanged.
C11_BinaryOps ==
  [][ \A o \in ArithOps :
        /\ Called("p" \o o \o "q") =>
             /\ IsPack(res'.pack)
             /\ \A i \in Lanes(n) : res'.pack[i] = scalar_op(o, p[i], q[i])
             /\ (\A i \in Lanes(n) : scalar_op(o, p[i], q[i]) # ScalarInvalid)
                  => NoInvalidLane(res'.pack)
             /\ p' = p /\ q' = q
        /\ Called("p" \o o \o "s") =>
             /\ IsPack(res'.pack)
             /\ \A i \in Lanes(n) : res'.pack[i] = scalar_op(o, p[i], arg')
             /\ (\A i \in Lanes(n) : scalar_op(o, p[i], arg') # ScalarInvalid)
                  => NoInvalidLane(res'.pack)
             /\ p' = p
        /\ Called("s" \o o \o "p") =>
             /\ IsPack(res'.pack)
             /\ \A i \in Lanes(n) : res'.pack[i] = scalar_op(o, arg', p[i])
             /\ (\A i \in Lanes(n) : scalar_op(o, arg', p[i]) # ScalarInvalid)
                  => NoInvalidLane(res'.pack)
             /\ p' = p
    ]_vars

\* s / p has returned on two lanes holding different non-zero divisors,
\* neither equal to s: the quotients are 2/1 and 2/2.
C11_Witness ==
  /\ op = "s/p"
  /\ n >= 2
  /\ arg = 2 /\ p[0] = 1 /\ p[1] = 2
  /\ res.pack[0] = 2 /\ res.pack[1] = 1

\* C12: in a build without EKAT_ENABLE_FPE no call of enable_fpes,
\* disable_fpes or disable_all_fpes, with any mask, changes the traps or the
\* exception flags of the process, and get_default_fpes and get_enabled_fpes
\* return 0.
C12_FpeInert ==
  /\ [][ ~enable_fpe => (fe_enabled' = fe_enabled /\ fe_raised' = fe_raised) ]_vars
  /\ []((~enable_fpe /\ fpe_op \in {"get_default_fpes", "get_enabled_fpes"})
          => fpe_res = {})

\* Without EKAT_ENABLE_FPE, disable_fpes has been called on a trap that is
\* enabled and a flag that is set, and both are still there.
C12_Witness ==
  /\ ~enable_fpe
  /\ fpe_op = "disable_fpes"
  /\ fpe_arg # {}
  /\ fpe_arg \subseteq fe_enabled
  /\ fpe_arg \subseteq fe_raised

\* The pack [1e16, 1.0, -1e16, 1.0] of the claim.
ExampleDoubles ==
  [i \in ExampleLanes |-> <<D_1e16, D_1, D_minus_1e16, D_1>>[i + 1]]

\* C13 as stated: serialized reduce_sum on the double pack
\* [1e16, 1.0, -1e16, 1.0], lanes added in the order 0,1,2,3 from 0, is 2.0.
C13_AsStated ==
  (op = "reduce_sum<true>(p)" /\ p = ExampleDoubles) => res.val = D_2

\* C13: serialized reduce_sum on the double pack [1e16, 1.0, -1e16, 1.0],
\* lanes added in the order 0,1,2,3 from 0, is 1.0: 1e16 + 1.0 rounds to 1e16.
C13_SerializedSum ==
  (op = "reduce_sum<true>(p)" /\ p = ExampleDoubles) => res.val = D_1

\* The serialized sum of [1e16, 1.0, -1e16, 1.0] has returned.
C13_Witness ==
  /\ op = "reduce_sum<true>(p)"
  /\ n = 4
  /\ p = ExampleDoubles
  /\ res.val = D_1

\* C14: !m is the lane-wise complement of m: (!m)[i] = ~m[i] on every lane,
\* so (!m).any() = !m.all(), (!m).all() = m.none() and !(!m) is lane-wise m;
\* m is unchanged.
C14_MaskNot ==
  [][ Called("!m") =>
        /\ IsPack(res'.pack)
        /\ \A i \in Lanes(n) : res'.pack[i] = ~m[i]
        /\ \A o1, o2 \in LaneOrders(n) :
             /\ any(res'.pack, o1) = ~all(m, o2)
             /\ all(res'.pack, o1) = none(m, o2)
        /\ \A i \in Lanes(n) : mask_not(res'.pack)[i] = m[i]
        /\ m' = m
    ]_vars

\* !m has returned on a mixed mask of three lanes: it is mixed too.
C14_Witness ==
  /\ op = "!m"
  /\ n >= 3
  /\ \E i, j \in Lanes(n) : m[i] /\ ~m[j] /\ ~res.pack[i] /\ res.pack[j]
  /\ \A i \in Lanes(n) : res.pack[i] = ~m[i]

====
